---- MODULE Spec2Model ----
(***************************************************************************)
(* ServiceNow incident status chatbot (src/main.py).                       *)
(*                                                                         *)
(* One Streamlit script run is one interaction: the script checks the      *)
(* completion-service key, reads four text inputs, and, when all four are  *)
(* non-empty, builds a ServiceNowAPIWrapper, registers fetch_status as the *)
(* only tool of a LangChain agent and runs the agent on the incident id.   *)
(*                                                                         *)
(* Text is a sequence of segments.  The segment NL is a line break, no     *)
(* other segment holds one.  A character outside ASCII is the segment      *)
(* naming its code point ("U+274C").                                       *)
(***************************************************************************)
EXTENDS Integers, Sequences, FiniteSets, TLC

(***************************************************************************)
(* The state of one script run.                                            *)
(***************************************************************************)
VARIABLES
    pc,              \* "start", "agent", "done", "stopped"
    openai_api_key,  \* os.getenv("OPENAI_API_KEY")
    instance_url, username, password, incident_id,  \* the four text inputs
    snow_api,        \* the wrapper, once built
    tools,           \* the names of the tools registered with the agent
    steps,           \* tool invocations of the running agent
    invocations,     \* the fetch_status invocations of this run
    network,         \* the requests sent to the remote system in this run
    display          \* what the page shows

vars == <<pc, openai_api_key, instance_url, username, password, incident_id,
          snow_api, tools, steps, invocations, network, display>>

(***************************************************************************)
(* Bounds of the model.                                                    *)
(***************************************************************************)
\* Tool invocations the agent loop may make in one run.
MaxAgentSteps == 2
\* Longest result list the remote system answers with.
MaxRows == 2

(***************************************************************************)
(* Python values.                                                          *)
(***************************************************************************)
PyNone == [t |-> "None"]
PyStr(s) == [t |-> "str", v |-> s]
PyDict(f) == [t |-> "dict", v |-> f]
PyList(a) == [t |-> "list", v |-> a]

EmptyDict == [k \in {} |-> PyNone]

NL == "\n"

\* bool(x)
Truthy(x) ==
    CASE x.t = "None" -> FALSE
      [] x.t = "str"  -> Len(x.v) > 0
      [] x.t = "list" -> Len(x.v) > 0
      [] x.t = "dict" -> DOMAIN x.v # {}

\* x or y
Or(x, y) == IF Truthy(x) THEN x ELSE y

\* d.get(key, default)
Get(d, key, default) == IF key \in DOMAIN d.v THEN d.v[key] ELSE default

\* isinstance(x, dict)
IsDict(x) == x.t = "dict"

Digit == <<"0", "1", "2", "3", "4", "5", "6", "7", "8", "9">>

\* str(n) of a non-negative int, as f"{n}" formats it
RECURSIVE IntStr(_)
IntStr(n) ==
    IF n < 10 THEN <<Digit[n + 1]>>
    ELSE IntStr(n \div 10) \o <<Digit[(n % 10) + 1]>>

\* f"{x}" of a str or of None
Format(x) == IF x.t = "None" THEN <<"None">> ELSE x.v

Return(value) == [kind |-> "return", value |-> value]
Raise(exc) == [kind |-> "raise", exc |-> exc]

(***************************************************************************)
(* ServiceNowAPIWrapper                                                    *)
(***************************************************************************)
ServiceNowAPIWrapper(instance_url_, username_, password_) ==
    [instance_url |-> instance_url_, auth |-> <<username_, password_>>]

\* The GET that get_incident_status issues.
Request(self, incident_number) ==
    [method  |-> "GET",
     url     |-> PyStr(self.instance_url.v
                       \o <<"/api/now/table/incident?sysparm_query=number=">>
                       \o incident_number.v
                       \o <<"&sysparm_limit=1">>),
     auth    |-> self.auth,
     headers |-> [Accept |-> "application/json"]]

\* Any 2xx status read as success, as response.ok would nearly do.
status_ok_any_2xx(status_code) == status_code >= 200 /\ status_code < 300

\* 404 read as "the query found nothing".
status_ok_or_404(status_code) == status_code = 200 \/ status_code = 404

\* Line 30: the only status that is read as success.
status_ok(status_code) == status_code = 200

\* The newest row taken instead of the first.
last_row(result) == result.v[Len(result.v)]

\* Line 33: the row the record is built from.
first_row(result) == result.v[1]

\* Lines 34-38: the two shapes of assigned_to.
assigned_to_display(assigned_to) ==
    IF IsDict(assigned_to)
    THEN Get(assigned_to, "display_value", PyStr(<<"N/A">>))
    ELSE Or(assigned_to, PyStr(<<"N/A">>))

\* The record carrying an empty error field next to its six fields.
IncidentDictWithError(incident) ==
    PyDict(("Number" :> Get(incident, "number", PyNone))
        @@ ("Short Description" :> Get(incident, "short_description", PyNone))
        @@ ("State" :> Get(incident, "state", PyNone))
        @@ ("Priority" :> Get(incident, "priority", PyNone))
        @@ ("Assigned To" :> assigned_to_display(Get(incident, "assigned_to", PyNone)))
        @@ ("Updated" :> Get(incident, "sys_updated_on", PyNone))
        @@ ("error" :> PyNone))

\* Lines 40-47: the record built from the first row.
IncidentDict(incident) ==
    PyDict(("Number" :> Get(incident, "number", PyNone))
        @@ ("Short Description" :> Get(incident, "short_description", PyNone))
        @@ ("State" :> Get(incident, "state", PyNone))
        @@ ("Priority" :> Get(incident, "priority", PyNone))
        @@ ("Assigned To" :> assigned_to_display(Get(incident, "assigned_to", PyNone)))
        @@ ("Updated" :> Get(incident, "sys_updated_on", PyNone)))

ErrorDict(message) == PyDict("error" :> PyStr(message))

\* One invocation, given the remote system's answer to its request: the
\* requests it issued, whether it read the body, and how it ended.
get_incident_status(self, incident_number, response) ==
    LET request == Request(self, incident_number) IN
    IF response.kind = "fault"
    THEN [requests |-> <<request>>, json_read |-> FALSE,
          outcome |-> Raise("ConnectionError")]
    ELSE IF status_ok(response.status_code)
    THEN IF response.body.json = "invalid"
         THEN [requests |-> <<request>>, json_read |-> TRUE,
               outcome |-> Raise("JSONDecodeError")]
         ELSE LET data == response.body.value IN
              IF ~IsDict(data)
              THEN [requests |-> <<request>>, json_read |-> TRUE,
                    outcome |-> Raise("AttributeError")]
              ELSE LET result == Get(data, "result", PyList(<<>>)) IN
                   IF Truthy(result)
                   THEN [requests |-> <<request>>, json_read |-> TRUE,
                         outcome |-> Return(IncidentDict(first_row(result)))]
                   ELSE [requests |-> <<request>>, json_read |-> TRUE,
                         outcome |-> Return(ErrorDict(<<"Incident not found">>))]
    ELSE [requests |-> <<request>>, json_read |-> FALSE,
          outcome |-> Return(ErrorDict(<<"API Error: ">> \o IntStr(response.status_code)))]

(***************************************************************************)
(* fetch_status: the tool function.                                        *)
(***************************************************************************)
\* Priority shown before State.
format_result_swapped(result) ==
    IF "error" \in DOMAIN result.v
    THEN <<"U+274C", " ">> \o Format(result.v["error"])
    ELSE <<"U+1F4C4", " Incident: ">> \o Format(result.v["Number"]) \o <<NL>>
      \o <<"U+1F4DD", " Description: ">> \o Format(result.v["Short Description"]) \o <<NL>>
      \o <<"U+26A0", "U+FE0F", " Priority: ">> \o Format(result.v["Priority"]) \o <<NL>>
      \o <<"U+1F4CC", " State: ">> \o Format(result.v["State"]) \o <<NL>>
      \o <<"U+1F464", " Assigned To: ">>
           \o Format(Or(result.v["Assigned To"], PyStr(<<"N/A">>))) \o <<NL>>
      \o <<"U+1F552", " Last Updated: ">> \o Format(result.v["Updated"])

\* Lines 75-85: the text of a lookup result.
format_result(result) ==
    IF "error" \in DOMAIN result.v
    THEN <<"U+274C", " ">> \o Format(result.v["error"])
    ELSE <<"U+1F4C4", " Incident: ">> \o Format(result.v["Number"]) \o <<NL>>
      \o <<"U+1F4DD", " Description: ">> \o Format(result.v["Short Description"]) \o <<NL>>
      \o <<"U+1F4CC", " State: ">> \o Format(result.v["State"]) \o <<NL>>
      \o <<"U+26A0", "U+FE0F", " Priority: ">> \o Format(result.v["Priority"]) \o <<NL>>
      \o <<"U+1F464", " Assigned To: ">>
           \o Format(Or(result.v["Assigned To"], PyStr(<<"N/A">>))) \o <<NL>>
      \o <<"U+1F552", " Last Updated: ">> \o Format(result.v["Updated"])

\* The lookup made for the id typed into the form, whatever the tool is given.
fetch_status_of_form_id(snow_api_, incident_number, response) ==
    LET call == get_incident_status(snow_api_, incident_id, response) IN
    [incident_number |-> incident_number,
     response |-> response,
     requests |-> call.requests,
     json_read |-> call.json_read,
     result |-> call.outcome,
     outcome |-> IF call.outcome.kind = "raise"
                 THEN call.outcome
                 ELSE Return(PyStr(format_result(call.outcome.value)))]

\* The tool memoised on its argument, as a caching decorator would make it.
fetch_status_cached(snow_api_, incident_number, response) ==
    LET call == get_incident_status(snow_api_, incident_number, response)
        hits == {j \in DOMAIN invocations :
                    /\ invocations[j].incident_number = incident_number
                    /\ invocations[j].outcome.kind = "return"}
    IN IF hits # {}
       THEN LET hit == invocations[CHOOSE j \in hits : \A k \in hits : j <= k] IN
            [incident_number |-> incident_number,
             response |-> response,
             requests |-> <<>>,
             json_read |-> FALSE,
             result |-> hit.result,
             outcome |-> hit.outcome]
       ELSE [incident_number |-> incident_number,
             response |-> response,
             requests |-> call.requests,
             json_read |-> call.json_read,
             result |-> call.outcome,
             outcome |-> IF call.outcome.kind = "raise"
                         THEN call.outcome
                         ELSE Return(PyStr(format_result(call.outcome.value)))]

\* The tool turning a raise of the lookup into an error text.
fetch_status_catching(snow_api_, incident_number, response) ==
    LET call == get_incident_status(snow_api_, incident_number, response) IN
    [incident_number |-> incident_number,
     response |-> response,
     requests |-> call.requests,
     json_read |-> call.json_read,
     result |-> call.outcome,
     outcome |-> IF call.outcome.kind = "raise"
                 THEN Return(PyStr(<<"U+274C", " ", call.outcome.exc>>))
                 ELSE Return(PyStr(format_result(call.outcome.value)))]

\* One tool invocation: the lookup, then its text; a raise passes through.
fetch_status(snow_api_, incident_number, response) ==
    LET call == get_incident_status(snow_api_, incident_number, response) IN
    [incident_number |-> incident_number,
     response |-> response,
     requests |-> call.requests,
     json_read |-> call.json_read,
     result |-> call.outcome,
     outcome |-> IF call.outcome.kind = "raise"
                 THEN call.outcome
                 ELSE Return(PyStr(format_result(call.outcome.value)))]

(***************************************************************************)
(* What the remote system may answer.                                      *)
(***************************************************************************)
\* The assigned_to values of a row: an object carrying a display_value, a
\* plain reference string, null, an object without display_value, an object
\* whose display_value is null, and the two empty strings.
AssignedToValues ==
    { PyDict([display_value |-> PyStr(<<"Bob">>)]),
      PyStr(<<"Alice">>),
      PyNone,
      PyDict([link |-> PyStr(<<"https://dev182735.service-now.com/api/now/table/sys_user/1">>)]),
      PyDict([display_value |-> PyNone]),
      PyStr(<<>>),
      PyDict([display_value |-> PyStr(<<>>)]) }

Row(assigned_to) ==
    PyDict([number            |-> PyStr(<<"INC0010001">>),
            short_description |-> PyStr(<<"VPN down">>),
            state             |-> PyStr(<<"2">>),
            priority          |-> PyStr(<<"1">>),
            assigned_to       |-> assigned_to,
            sys_updated_on    |-> PyStr(<<"2024-01-01 10:00:00">>)])

\* A row without the assigned_to key.
RowUnassigned ==
    PyDict([number            |-> PyStr(<<"INC0010001">>),
            short_description |-> PyStr(<<"VPN down">>),
            state             |-> PyStr(<<"2">>),
            priority          |-> PyStr(<<"1">>),
            sys_updated_on    |-> PyStr(<<"2024-01-01 10:00:00">>)])

\* A row whose short description holds a line break.
RowMultiline ==
    PyDict([number            |-> PyStr(<<"INC0010001">>),
            short_description |-> PyStr(<<"VPN down", NL, "since Monday">>),
            state             |-> PyStr(<<"2">>),
            priority          |-> PyStr(<<"1">>),
            assigned_to       |-> PyStr(<<"Alice">>),
            sys_updated_on    |-> PyStr(<<"2024-01-01 10:00:00">>)])

\* A row with none of the six fields.
RowEmpty == PyDict([sys_id |-> PyStr(<<"46d44a5dc0a8010e0000bf3d5e7c2b1a">>)])

\* Another incident, as a further element of the result list.
RowOther ==
    PyDict([number            |-> PyStr(<<"INC0000002">>),
            short_description |-> PyStr(<<"Printer jam">>),
            state             |-> PyStr(<<"6">>),
            priority          |-> PyStr(<<"4">>),
            assigned_to       |-> PyDict([display_value |-> PyStr(<<"Carol">>)]),
            sys_updated_on    |-> PyStr(<<"2023-12-31 09:30:00">>)])

Rows == {Row(a) : a \in AssignedToValues} \cup {RowUnassigned, RowMultiline, RowEmpty}

\* Rows that also come first in a longer list.
LeadRows == {Row(PyNone), RowMultiline}

RECURSIVE Repeat(_, _)
Repeat(x, n) == IF n = 0 THEN <<>> ELSE <<x>> \o Repeat(x, n - 1)

ResultLists ==
    {<<>>}
    \cup {<<r>> : r \in Rows}
    \cup {<<r>> \o Repeat(RowOther, n) : r \in LeadRows, n \in 1..(MaxRows - 1)}

InvalidJson == [json |-> "invalid"]
Json(value) == [json |-> "ok", value |-> value]

Bodies200 ==
    {InvalidJson, Json(PyList(<<>>)), Json(PyDict(EmptyDict))}
    \cup {Json(PyDict([result |-> PyList(rows)])) : rows \in ResultLists}

\* Status codes the remote system answers with.
StatusCodes == {200, 201, 401, 404, 500}

Http(status_code, body) == [kind |-> "http", status_code |-> status_code, body |-> body]
Fault == [kind |-> "fault"]

Responses ==
    {Fault}
    \cup {Http(200, b) : b \in Bodies200}
    \cup {Http(s, InvalidJson) : s \in StatusCodes \ {200}}
    \cup {Http(404, Json(PyDict([result |-> PyList(<<Row(PyNone)>>)]))),
          Http(404, Json(PyDict([result |-> PyList(<<>>)]))),
          Http(500, Json(PyDict([result |-> PyList(<<>>)])))}

(***************************************************************************)
(* What the user may type and the completion service may choose.           *)
(***************************************************************************)
KeyValues == {PyNone, PyStr(<<>>), PyStr(<<"sk-test">>)}
UrlInputs == {PyStr(<<>>), PyStr(<<"https://dev182735.service-now.com">>)}
UsernameInputs == {PyStr(<<>>), PyStr(<<"admin">>)}
PasswordInputs == {PyStr(<<>>), PyStr(<<"secret">>)}
IncidentInputs == {PyStr(<<>>), PyStr(<<"INC0010001">>)}

\* Tool inputs the completion service may choose for the query.
ToolInputs(query) == {query, PyStr(<<"INC0000002">>)}

Undefined == [t |-> "undefined"]

(***************************************************************************)
(* The script.                                                             *)
(***************************************************************************)
Widget(kind, body) == [widget |-> kind, body |-> body]

MissingKeyError ==
    Widget("error", <<"U+274C", " OPENAI_API_KEY not found. Please set it in .env file or environment.">>)
InputPrompt ==
    Widget("info", <<"U+2139", "U+FE0F", " Please enter your ServiceNow credentials and an incident ID.">>)
SuccessHeader == Widget("success", <<"U+2705", " Incident Status:">>)
FailureMessage == Widget("error", <<"U+274C", " Error while processing request.">>)

\* The password left out of the test.
inputs_given_but_password(i, u, n, p) == Truthy(i) /\ Truthy(u) /\ Truthy(n)

\* Line 67: the four inputs are all given.
inputs_given(i, u, n, p) == Truthy(i) /\ Truthy(u) /\ Truthy(n) /\ Truthy(p)

Fresh ==
    /\ pc = "start"
    /\ instance_url = Undefined
    /\ username = Undefined
    /\ password = Undefined
    /\ incident_id = Undefined
    /\ snow_api = PyNone
    /\ tools = <<>>
    /\ steps = 0
    /\ invocations = <<>>
    /\ network = <<>>
    /\ display = <<>>

Init ==
    /\ openai_api_key \in KeyValues
    /\ Fresh

\* Lines 12-15: no key, the script stops before any input is read.
StopWithoutKey ==
    /\ pc = "start"
    /\ ~Truthy(openai_api_key)
    /\ display' = <<MissingKeyError>>
    /\ pc' = "stopped"
    /\ UNCHANGED <<openai_api_key, instance_url, username, password, incident_id,
                   snow_api, tools, steps, invocations, network>>

\* Lines 59-67 and 113-114: some input is empty.
AskForInputs ==
    /\ pc = "start"
    /\ Truthy(openai_api_key)
    /\ \E u \in UrlInputs, n \in UsernameInputs, p \in PasswordInputs, i \in IncidentInputs :
          /\ ~inputs_given(i, u, n, p)
          /\ instance_url' = u
          /\ username' = n
          /\ password' = p
          /\ incident_id' = i
    /\ display' = <<InputPrompt>>
    /\ pc' = "done"
    /\ UNCHANGED <<openai_api_key, snow_api, tools, steps, invocations, network>>

\* Lines 59-102: all four inputs given, the wrapper and the agent are built.
StartAgent ==
    /\ pc = "start"
    /\ Truthy(openai_api_key)
    /\ \E u \in UrlInputs, n \in UsernameInputs, p \in PasswordInputs, i \in IncidentInputs :
          /\ inputs_given(i, u, n, p)
          /\ instance_url' = u
          /\ username' = n
          /\ password' = p
          /\ incident_id' = i
          /\ snow_api' = ServiceNowAPIWrapper(u, n, p)
    /\ tools' = <<"ServiceNow Incident Lookup">>
    /\ pc' = "agent"
    /\ UNCHANGED <<openai_api_key, steps, invocations, network, display>>

\* agent.run, one step: the completion service asks for the tool.
AgentCallsTool ==
    /\ pc = "agent"
    /\ steps < MaxAgentSteps
    /\ \E incident_number \in ToolInputs(incident_id), response \in Responses :
          LET inv == fetch_status(snow_api, incident_number, response) IN
          /\ invocations' = Append(invocations, inv)
          /\ network' = network \o inv.requests
          /\ IF inv.outcome.kind = "raise"
             THEN /\ display' = <<FailureMessage, Widget("exception", inv.outcome.exc)>>
                  /\ pc' = "done"
                  /\ steps' = steps
             ELSE /\ steps' = steps + 1
                  /\ UNCHANGED <<display, pc>>
    /\ UNCHANGED <<openai_api_key, instance_url, username, password, incident_id,
                   snow_api, tools>>

\* What agent.run may return: the last tool output, or text of its own.
AgentOutputs ==
    {PyStr(<<"The incident is being worked on.">>)}
    \cup (IF Len(invocations) > 0
          THEN {invocations[Len(invocations)].outcome.value}
          ELSE {})

\* agent.run returns; lines 108-109.
AgentFinishes ==
    /\ pc = "agent"
    /\ \E result \in AgentOutputs :
          display' = <<SuccessHeader, Widget("write", result.v)>>
    /\ pc' = "done"
    /\ UNCHANGED <<openai_api_key, instance_url, username, password, incident_id,
                   snow_api, tools, steps, invocations, network>>

\* agent.run raises for a fault of the completion service; lines 110-112.
AgentFaults ==
    /\ pc = "agent"
    /\ display' = <<FailureMessage, Widget("exception", "CompletionServiceError")>>
    /\ pc' = "done"
    /\ UNCHANGED <<openai_api_key, instance_url, username, password, incident_id,
                   snow_api, tools, steps, invocations, network>>

\* The next interaction: the script runs again from its first line.
Rerun ==
    /\ pc \in {"done", "stopped"}
    /\ pc' = "start"
    /\ instance_url' = Undefined
    /\ username' = Undefined
    /\ password' = Undefined
    /\ incident_id' = Undefined
    /\ snow_api' = PyNone
    /\ tools' = <<>>
    /\ steps' = 0
    /\ invocations' = <<>>
    /\ network' = <<>>
    /\ display' = <<>>
    /\ UNCHANGED openai_api_key

Next ==
    \/ StopWithoutKey
    \/ AskForInputs
    \/ StartAgent
    \/ AgentCallsTool
    \/ AgentFinishes
    \/ AgentFaults
    \/ Rerun

Spec == Init /\ [][Next]_vars

(***************************************************************************)
(* Vocabulary of the properties.                                           *)
(***************************************************************************)
RecordKeys == {"Number", "Short Description", "State", "Priority", "Assigned To", "Updated"}

IsIncidentRecord(x) == x.t = "dict" /\ RecordKeys \subseteq DOMAIN x.v
IsLookupError(x) == x.t = "dict" /\ "error" \in DOMAIN x.v

Returned(inv) == inv.result.kind = "return"
Raised(inv) == inv.result.kind = "raise"
Answered(inv) == inv.response.kind = "http"
Answered200(inv) == Answered(inv) /\ inv.response.status_code = 200
AnsweredOther(inv) == Answered(inv) /\ inv.response.status_code # 200

\* The body parses and is a JSON object.
BodyIsObject(inv) ==
    /\ inv.response.body.json = "ok"
    /\ inv.response.body.value.t = "dict"

\* The result list of a JSON object body; no rows when it carries none.
RowsOf(inv) ==
    LET data == inv.response.body.value.v IN
    IF "result" \in DOMAIN data THEN data["result"].v ELSE <<>>

HasRows(inv) == Answered200(inv) /\ BodyIsObject(inv) /\ Len(RowsOf(inv)) > 0
HasNoRows(inv) == Answered200(inv) /\ BodyIsObject(inv) /\ Len(RowsOf(inv)) = 0

\* The remote system answered as its interface says it does.
WellFormed(inv) == AnsweredOther(inv) \/ (Answered200(inv) /\ BodyIsObject(inv))

Field(row, key) == IF key \in DOMAIN row.v THEN row.v[key] ELSE PyNone

NotAvailable == PyStr(<<"N/A">>)

ErrorOf(message) == Return(PyDict("error" :> PyStr(message)))

\* The decimal text of the status codes.
StatusText ==
    (200 :> <<"2", "0", "0">>) @@ (201 :> <<"2", "0", "1">>)
    @@ (401 :> <<"4", "0", "1">>) @@ (404 :> <<"4", "0", "4">>)
    @@ (500 :> <<"5", "0", "0">>)

RECURSIVE SplitLines(_)
SplitLines(text) ==
    IF \A k \in DOMAIN text : text[k] # NL
    THEN <<text>>
    ELSE LET k == CHOOSE k \in DOMAIN text :
                    text[k] = NL /\ \A j \in 1..(k - 1) : text[j] # NL
         IN <<SubSeq(text, 1, k - 1)>> \o SplitLines(SubSeq(text, k + 1, Len(text)))

StartsWith(line, prefix) ==
    Len(line) >= Len(prefix) /\ SubSeq(line, 1, Len(prefix)) = prefix

Labels ==
    << <<"U+1F4C4", " Incident: ">>,
       <<"U+1F4DD", " Description: ">>,
       <<"U+1F4CC", " State: ">>,
       <<"U+26A0", "U+FE0F", " Priority: ">>,
       <<"U+1F464", " Assigned To: ">>,
       <<"U+1F552", " Last Updated: ">> >>

HasLineBreak(x) == x.t = "str" /\ \E k \in DOMAIN x.v : x.v[k] = NL

\* The request a lookup of incident_number sends for the inputs of this run.
RequestFor(incident_number) ==
    [method  |-> "GET",
     url     |-> PyStr(instance_url.v
                       \o <<"/api/now/table/incident?sysparm_query=number=">>
                       \o incident_number.v
                       \o <<"&sysparm_limit=1">>),
     auth    |-> <<username, password>>,
     headers |-> [Accept |-> "application/json"]]

Shown(kind) == \E k \in DOMAIN display : display[k].widget = kind

C2_RecordIsFirstRow ==
    \A i \in DOMAIN invocations :
        LET inv == invocations[i] IN
        HasRows(inv) =>
            /\ Returned(inv)
            /\ IsIncidentRecord(inv.result.value)
            /\ ~IsLookupError(inv.result.value)
            /\ LET row == RowsOf(inv)[1]
                   rec == inv.result.value.v
                   a == Field(row, "assigned_to")
               IN /\ rec["Number"] = Field(row, "number")
                  /\ rec["Short Description"] = Field(row, "short_description")
                  /\ rec["State"] = Field(row, "state")
                  /\ rec["Priority"] = Field(row, "priority")
                  /\ rec["Updated"] = Field(row, "sys_updated_on")
                  /\ rec["Assigned To"] =
                        IF a.t = "dict"
                        THEN (IF "display_value" \in DOMAIN a.v
                              THEN a.v["display_value"] ELSE NotAvailable)
                        ELSE (IF a = PyNone \/ a = PyStr(<<>>)
                              THEN NotAvailable ELSE a)

C2_Witness ==
    \E i \in DOMAIN invocations :
        LET inv == invocations[i] IN
        /\ HasRows(inv)
        /\ Len(RowsOf(inv)) >= 2
        /\ Field(RowsOf(inv)[2], "number") # Field(RowsOf(inv)[1], "number")
        /\ Returned(inv)
        /\ inv.result.value.v["Number"] = PyStr(<<"INC0010001">>)

(***************************************************************************)
(* C3                                                                      *)
(***************************************************************************)
\* C3: the Assigned To field of every returned record is a string: the
\* display_value of an object that carries one, the plain string itself,
\* and "N/A" when the value is absent (null, missing or empty, or an object
\* whose display_value is missing or null).  It is never None.
C3_AssignedToIsAString ==
    \A i \in DOMAIN invocations :
        LET inv == invocations[i] IN
        (HasRows(inv) /\ Returned(inv)) =>
            LET a == Field(RowsOf(inv)[1], "assigned_to")
                shown == inv.result.value.v["Assigned To"]
            IN /\ shown.t = "str"
               /\ shown # PyNone
               /\ shown =
                    IF a.t = "dict"
                    THEN (IF "display_value" \in DOMAIN a.v /\ a.v["display_value"] # PyNone
                          THEN a.v["display_value"] ELSE NotAvailable)
                    ELSE (IF a = PyNone \/ a = PyStr(<<>>) THEN NotAvailable ELSE a)

(***************************************************************************)
(* C4                                                                      *)
(***************************************************************************)
\* C4: for every status S other than 200 the lookup returns the error
\* "API Error: S", has not read the body and has sent one request only.
C4_OtherStatusIsApiError ==
    \A i \in DOMAIN invocations :
        LET inv == invocations[i] IN
        AnsweredOther(inv) =>
            /\ inv.result = ErrorOf(<<"API Error: ">> \o StatusText[inv.response.status_code])
            /\ ~inv.json_read
            /\ Len(inv.requests) = 1

C4_Witness ==
    \E i \in DOMAIN invocations :
        LET inv == invocations[i] IN
        /\ inv.response = Http(404, Json(PyDict([result |-> PyList(<<Row(PyNone)>>)])))
        /\ inv.result = ErrorOf(<<"API Error: ", "4", "0", "4">>)
        /\ \E j \in DOMAIN invocations :
              /\ invocations[j].response.kind = "http"
              /\ invocations[j].response.status_code = 500

(***************************************************************************)
(* C5                                                                      *)
(***************************************************************************)
\* C5: a 200 answer without rows gives the error "Incident not found", and
\* that error is given for a 200 answer without rows only.
C5_NoRowsIsNotFound ==
    \A i \in DOMAIN invocations :
        LET inv == invocations[i] IN
        /\ HasNoRows(inv) => inv.result = ErrorOf(<<"Incident not found">>)
        /\ inv.result = ErrorOf(<<"Incident not found">>) => HasNoRows(inv)

C5_Witness ==
    /\ Len(invocations) = 2
    /\ invocations[1].response = Http(200, Json(PyDict([result |-> PyList(<<>>)])))
    /\ invocations[1].result = ErrorOf(<<"Incident not found">>)
    /\ invocations[2].response = Http(404, Json(PyDict([result |-> PyList(<<>>)])))
    /\ invocations[2].result # ErrorOf(<<"Incident not found">>)

(***************************************************************************)
(* C6                                                                      *)
(***************************************************************************)
AnyInputEmpty ==
    \E x \in {instance_url, username, password, incident_id} : x = PyStr(<<>>)

\* C6: once the script has read the four inputs and one of them is empty,
\* no wrapper is built, no tool is registered or invoked, nothing is sent to
\* the remote system, the page shows the prompt for the inputs and nothing
\* else, and the run is over.
C6_EmptyInputHalts ==
    AnyInputEmpty =>
        /\ snow_api = PyNone
        /\ tools = <<>>
        /\ steps = 0
        /\ invocations = <<>>
        /\ network = <<>>
        /\ display = <<InputPrompt>>
        /\ pc = "done"

C6_Witness ==
    /\ pc = "done"
    /\ password = PyStr(<<>>)
    /\ Truthy(instance_url) /\ Truthy(username) /\ Truthy(incident_id)
    /\ display = <<InputPrompt>>

(***************************************************************************)
(* C7                                                                      *)
(***************************************************************************)
\* C7 as stated: a finished run of the agent with the four inputs given has
\* invoked the tool once and sent one request, for the id the user entered.
C7_OneCallPerRun ==
    (pc = "done" /\ tools # <<>>) =>
        /\ Len(invocations) = 1
        /\ Len(network) = 1
        /\ invocations[1].incident_number = incident_id
        /\ network[1] = RequestFor(incident_id)

\* C7 as amended: one tool is registered, and every invocation of it sends
\* exactly one request, to the instance and with the credentials the user
\* entered, for the id the tool was given; how often the tool is invoked in
\* a run and with which id is the completion service's choice.
C7_OneCallPerToolInvocation ==
    /\ Len(tools) <= 1
    /\ Len(network) = Len(invocations)
    /\ \A i \in DOMAIN invocations :
          /\ invocations[i].requests = <<network[i]>>
          /\ network[i] = RequestFor(invocations[i].incident_number)

C7_Witness ==
    /\ pc = "done"
    /\ Shown("success")
    /\ Len(invocations) = 2
    /\ Len(network) = 2
    /\ invocations[1].incident_number = incident_id
    /\ invocations[2].incident_number # incident_id

(***************************************************************************)
(* C8                                                                      *)
(***************************************************************************)
\* C8: in a sequence of invocations each one sends exactly one request,
\* also for an id looked up before and also when it fails, and invocations
\* with the same id and the same answer end the same way whatever came
\* before them.
C8_EachInvocationQueriesOnce ==
    /\ Len(network) = Len(invocations)
    /\ \A i \in DOMAIN invocations :
          /\ Len(invocations[i].requests) = 1
          /\ network[i].url = RequestFor(invocations[i].incident_number).url
    /\ \A i, j \in DOMAIN invocations :
          (/\ invocations[i].incident_number = invocations[j].incident_number
           /\ invocations[i].response = invocations[j].response)
          => /\ invocations[i].result = invocations[j].result
             /\ invocations[i].outcome = invocations[j].outcome

C8_Witness ==
    /\ Len(invocations) = 2
    /\ invocations[1].incident_number = invocations[2].incident_number
    /\ AnsweredOther(invocations[1])
    /\ HasRows(invocations[2])
    /\ invocations[1].result # invocations[2].result
    /\ network[1] = network[2]

(***************************************************************************)
(* C9                                                                      *)
(***************************************************************************)
\* The line breaks in the fields of a record.
LineBreaks(rec) ==
    Cardinality(UNION {{<<key, k>> : k \in {k \in DOMAIN rec[key].v : rec[key].v[k] = NL}} :
                          key \in {key \in RecordKeys : rec[key].t = "str"}})

\* The text the page shows for the scenario of the interface description.
ScenarioText ==
    <<"U+1F4C4", " Incident: ", "INC0010001", NL,
      "U+1F4DD", " Description: ", "VPN down", NL,
      "U+1F4CC", " State: ", "2", NL,
      "U+26A0", "U+FE0F", " Priority: ", "1", NL,
      "U+1F464", " Assigned To: ", "Bob", NL,
      "U+1F552", " Last Updated: ", "2024-01-01 10:00:00">>

ErrorLine(inv) ==
    LET text == inv.outcome.value.v IN
    /\ Len(SplitLines(text)) = 1
    /\ text = <<"U+274C", " ">> \o inv.result.value.v["error"].v
    /\ (Answered(inv) /\ inv.response.status_code = 404)
          => text = <<"U+274C", " ", "API Error: ", "4", "0", "4">>

SixLines(inv) ==
    LET lines == SplitLines(inv.outcome.value.v) IN
    /\ Len(lines) = 6
    /\ \A k \in 1..6 : StartsWith(lines[k], Labels[k])

\* C9 as stated: the text of every record is six lines, one per field, each
\* with its label, in the order Incident, Description, State, Priority,
\* Assigned To, Last Updated; the text of every error is the one line of
\* the marker and the message.
C9_SixLinesOrOneErrorLine ==
    \A i \in DOMAIN invocations :
        LET inv == invocations[i] IN
        Returned(inv) =>
            IF IsLookupError(inv.result.value) THEN ErrorLine(inv) ELSE SixLines(inv)

\* C9 as amended: the six labelled lines are those of a record none of whose
\* fields holds a line break; in general the text has six lines and one
\* more for every line break in a field, and starts with the Incident
\* label.  Errors are as stated.
C9_SixLinesUnlessFieldBreaks ==
    \A i \in DOMAIN invocations :
        LET inv == invocations[i] IN
        Returned(inv) =>
            IF IsLookupError(inv.result.value)
            THEN ErrorLine(inv)
            ELSE LET rec == inv.result.value.v
                     text == inv.outcome.value.v
                     lines == SplitLines(text)
                 IN /\ (\A key \in RecordKeys : ~HasLineBreak(rec[key])) => SixLines(inv)
                    /\ Len(lines) = 6 + LineBreaks(rec)
                    /\ StartsWith(lines[1], Labels[1])
                    /\ HasRows(inv) /\ RowsOf(inv)[1] = Row(PyDict([display_value |-> PyStr(<<"Bob">>)]))
                          => text = ScenarioText

C9_Witness ==
    /\ Len(invocations) = 2
    /\ HasRows(invocations[1])
    /\ invocations[1].outcome = Return(PyStr(ScenarioText))
    /\ AnsweredOther(invocations[2])
    /\ invocations[2].response.status_code = 404
    /\ invocations[2].outcome = Return(PyStr(<<"U+274C", " ", "API Error: ", "4", "0", "4">>))

(***************************************************************************)
(* C10                                                                     *)
(***************************************************************************)
\* C10: a network fault or a 200 body that does not parse is not turned
\* into a record or an error and is not tried again: the invocation raises
\* after its one request, it is the last of the run, the run is over, and
\* the page shows the failure message with the fault and no success.  The
\* same holds of a fault of the completion service.  An error record comes
\* from a status other than 200 or from a 200 answer without rows only.
C10_FaultsReachTheBoundary ==
    /\ \A i \in DOMAIN invocations :
          LET inv == invocations[i] IN
          /\ (inv.response = Fault \/ (Answered200(inv) /\ ~BodyIsObject(inv))) =>
                /\ Raised(inv)
                /\ inv.outcome = inv.result
                /\ Len(inv.requests) = 1
                /\ i = Len(invocations)
                /\ Len(network) = Len(invocations)
                /\ pc = "done"
                /\ display = <<FailureMessage, Widget("exception", inv.result.exc)>>
          /\ (Returned(inv) /\ IsLookupError(inv.result.value)) =>
                AnsweredOther(inv) \/ HasNoRows(inv)
    /\ Shown("exception") =>
          /\ pc = "done"
          /\ display[1] = FailureMessage
          /\ ~Shown("success")
          /\ ~Shown("write")

C10_Witness ==
    /\ Len(invocations) = 2
    /\ Returned(invocations[1])
    /\ invocations[2].response = Http(200, InvalidJson)
    /\ Raised(invocations[2])
    /\ display = <<FailureMessage, Widget("exception", "JSONDecodeError")>>

====
